---- MODULE Spec2Model ----
(***************************************************************************)
(* Model of threshold-monitor.c: a D-Bus client that listens for           *)
(* PropertiesChanged signals on the critical-threshold interface of the    *)
(* configured sensors and requests a chassis power-off when a watched      *)
(* alarm property is asserted.                                             *)
(*                                                                         *)
(* C strings are modelled as sequences of tokens (a token stands for one   *)
(* or more characters), so that equality, prefixes and extensions of       *)
(* strings are distinct values and strcmp is computed, not assumed.        *)
(*                                                                         *)
(* The sd-bus calls are modelled by their libsystemd behaviour:            *)
(*   - sd_bus_message_enter_container, sd_bus_message_read and             *)
(*     sd_bus_message_skip return 0 (not an error) and touch none of their *)
(*     output arguments when the read position is at the end of the        *)
(*     enclosing array;                                                    *)
(*   - they return a negative errno when the type at the read position is  *)
(*     not the requested one;                                              *)
(*   - sd_bus_message_exit_container leaves the innermost open container.  *)
(***************************************************************************)
EXTENDS Integers, Sequences, FiniteSets, TLC

VARIABLES
    pc,           \* position of main
    exit_status,  \* "running", or how the process ended
    bus,          \* what set-up has achieved: bus opened, match registered
    main_rc,      \* main's rc: the result of the last sd_bus_process
    diag,         \* the diagnostics main has written (errx, err, warnx)
    inbox,        \* signals the transport has received and not yet processed
    msg,          \* the message the handler was last called with
    out,          \* the outcome of that call
    cls           \* input and result of the classifier on its own

vars == <<pc, exit_status, bus, main_rc, diag, inbox, msg, out, cls>>

\* the variables main owns
main_vars == <<pc, exit_status, bus, main_rc, diag, inbox>>

(***************************************************************************)
(* Bounds                                                                  *)
(***************************************************************************)
\* longest changed-properties array of a generated signal
MaxProps == 3

\* most signals waiting in the transport's queue
MaxQueue == 2

(***************************************************************************)
(* Strings                                                                 *)
(***************************************************************************)
\* the null pointer, as a value distinct from every string
NULL == <<"(null)">>

\* an uninitialised char pointer that does not point to readable memory
WildPointer == <<"(wild)">>

\* a string whose wire bytes are not a valid D-Bus string
BadString == <<"(invalid)">>

RECURSIVE strcmp(_, _)
strcmp(a, b) ==
    IF a = <<>> /\ b = <<>> THEN 0
    ELSE IF a = <<>> THEN -1
    ELSE IF b = <<>> THEN 1
    ELSE IF Head(a) # Head(b) THEN 1
    ELSE strcmp(Tail(a), Tail(b))

\* strncmp(a, b, n) = 0 iff a and b agree on their first n tokens
RECURSIVE strncmp(_, _, _)
strncmp(a, b, n) ==
    IF n = 0 THEN 0
    ELSE IF a = <<>> /\ b = <<>> THEN 0
    ELSE IF a = <<>> THEN -1
    ELSE IF b = <<>> THEN 1
    ELSE IF Head(a) # Head(b) THEN 1
    ELSE strncmp(Tail(a), Tail(b), n - 1)

RECURSIVE BitOr(_, _)
BitOr(a, b) ==
    IF a = 0 THEN b
    ELSE IF b = 0 THEN a
    ELSE (IF a % 2 = 1 \/ b % 2 = 1 THEN 1 ELSE 0)
         + 2 * BitOr(a \div 2, b \div 2)

RECURSIVE BitAnd(_, _)
BitAnd(a, b) ==
    IF a = 0 \/ b = 0 THEN 0
    ELSE (a % 2) * (b % 2) + 2 * BitAnd(a \div 2, b \div 2)

(***************************************************************************)
(* Static configuration                                                    *)
(***************************************************************************)
T_HIGH == 1
T_LOW == 2

SensorDir == "/xyz/openbmc_project/sensors/temperature/"
Temp1 == <<SensorDir, "Temp", "1">>
Temp2 == <<SensorDir, "Temp", "2">>

sensor_configs ==
    << [path |-> Temp1, thresholds |-> BitOr(T_LOW, T_HIGH)],
       [path |-> Temp2, thresholds |-> T_HIGH] >>

prop_iface == <<"org.freedesktop.DBus.Properties">>
propchange_member == <<"PropertiesChanged">>
crit_iface == <<"xyz.openbmc_project.Sensor.Threshold.Critical">>

CriticalAlarmHigh == <<"CriticalAlarm", "High">>
CriticalAlarmLow == <<"CriticalAlarm", "Low">>

prop_names ==
    << [config |-> T_HIGH, prop |-> CriticalAlarmHigh],
       [config |-> T_LOW, prop |-> CriticalAlarmLow] >>

(***************************************************************************)
(* Property classifier                                                     *)
(***************************************************************************)
RECURSIVE prop_names_scan(_, _, _)
prop_names_scan(config, propname, i) ==
    IF i > Len(prop_names) THEN FALSE
    ELSE IF strcmp(prop_names[i].prop, propname) = 0
         THEN BitAnd(config.thresholds, prop_names[i].config) # 0
         ELSE prop_names_scan(config, propname, i + 1)

\* bug: the configuration is not consulted, every threshold name matches
threshold_prop_matches_config_any(config, propname) ==
    \E i \in 1..Len(prop_names) : strcmp(prop_names[i].prop, propname) = 0

\* bug: the loop bound is one short, the last table entry is never tried
threshold_prop_matches_config_short(config, propname) ==
    /\ strcmp(prop_names[1].prop, propname) = 0
    /\ BitAnd(config.thresholds, prop_names[1].config) # 0

\* bug: the fall-through result is true, so unknown names are relevant
threshold_prop_matches_config_default_true(config, propname) ==
    IF \E i \in 1..Len(prop_names) : strcmp(prop_names[i].prop, propname) = 0
    THEN prop_names_scan(config, propname, 1)
    ELSE TRUE

threshold_prop_matches_config(config, propname) ==
    prop_names_scan(config, propname, 1)

(***************************************************************************)
(* Sensor registry                                                         *)
(***************************************************************************)
\* index into sensor_configs of the first entry for path, 0 for "not found"
RECURSIVE sensor_configs_scan(_, _)
sensor_configs_scan(path, i) ==
    IF i > Len(sensor_configs) THEN 0
    ELSE IF strcmp(sensor_configs[i].path, path) = 0 THEN i
    ELSE sensor_configs_scan(path, i + 1)

\* bug: compares only the length of the configured path (prefix match)
RECURSIVE sensor_configs_scan_prefix(_, _)
sensor_configs_scan_prefix(path, i) ==
    IF i > Len(sensor_configs) THEN 0
    ELSE IF strncmp(sensor_configs[i].path, path,
                    Len(sensor_configs[i].path)) = 0 THEN i
    ELSE sensor_configs_scan_prefix(path, i + 1)

find_sensor_config_prefix(path) ==
    IF path = NULL THEN 0 ELSE sensor_configs_scan_prefix(path, 1)

find_sensor_config(path) ==
    IF path = NULL THEN 0 ELSE sensor_configs_scan(path, 1)

(***************************************************************************)
(* Messages                                                                *)
(*   type/interface/member/path : header fields                            *)
(*   arg0, arg1                 : the first two body arguments, each with  *)
(*                                its wire signature                       *)
(* A variant is [sig, val]; a changed-properties entry is [name, value].   *)
(***************************************************************************)
VariantTrue == [sig |-> "b", val |-> 1]
VariantFalse == [sig |-> "b", val |-> 0]
VariantInt == [sig |-> "i", val |-> 1]

Variants == {VariantTrue, VariantFalse, VariantInt}

OtherProp == <<"WarningAlarm", "High">>

EntryNames == {CriticalAlarmHigh, CriticalAlarmLow, OtherProp}

Entries ==
    [name : EntryNames, value : Variants]
    \cup {[name |-> BadString, value |-> VariantFalse]}

\* every sequence of at most MaxProps entries
PropSeqs == UNION {[1..n -> Entries] : n \in 0..MaxProps}

other_iface == <<"xyz.openbmc_project.Sensor.Threshold.Warning">>

Arg0s ==
    { [sig |-> "s", val |-> crit_iface],
      [sig |-> "s", val |-> other_iface],
      [sig |-> "i", val |-> <<>>] }

Arg1s ==
    {[sig |-> "a{sv}", val |-> q] : q \in PropSeqs}
    \cup {[sig |-> "s", val |-> <<>>]}

Headers ==
    { [type |-> "signal", interface |-> prop_iface,
       member |-> propchange_member],
      [type |-> "method_call", interface |-> prop_iface,
       member |-> propchange_member],
      [type |-> "signal", interface |-> crit_iface,
       member |-> propchange_member],
      [type |-> "signal", interface |-> prop_iface,
       member |-> <<"PropertiesChanged", "2">>] }

Paths ==
    { Temp1, Temp2, <<SensorDir, "Temp">>, <<SensorDir, "Temp", "1", "0">>,
      NULL }

Message(h, p, a0, a1) ==
    [type |-> h.type, interface |-> h.interface, member |-> h.member,
     path |-> p, arg0 |-> a0, arg1 |-> a1]

NoMessage ==
    Message([type |-> "none", interface |-> <<>>, member |-> <<>>], NULL,
            [sig |-> "", val |-> <<>>], [sig |-> "", val |-> <<>>])

(***************************************************************************)
(* Values that the C code reads without having written them, and the       *)
(* result of the remote call: chosen by the environment per handler call.  *)
(*   propname : content of the uninitialised `char *propname' (line 118)   *)
(*   tmp      : content of the uninitialised `int tmp' (line 164)          *)
(*   call_rc  : result of sd_bus_call_method (line 94)                     *)
(***************************************************************************)
Unknowns ==
    [propname : EntryNames \cup {WildPointer}, tmp : {0, 1},
     call_rc : {0, -1}]

(***************************************************************************)
(* sd-bus message reading                                                  *)
(***************************************************************************)
sd_bus_message_is_signal(m, interface, member) ==
    /\ m.type = "signal"
    /\ strcmp(m.interface, interface) = 0
    /\ strcmp(m.member, member) = 0

\* sd_bus_message_read_basic(msg, 's', &iface) on the first argument
sd_bus_message_read_basic(arg) ==
    IF arg.sig = "s" THEN [rc |-> 1, val |-> arg.val]
    ELSE [rc |-> -6, val |-> <<>>]

sd_bus_message_get_path(m) == m.path

\* sd_bus_message_enter_container(msg, 'a', "{sv}") on the second argument
enter_array(arg) == IF arg.sig = "a{sv}" THEN 1 ELSE -6

\* sd_bus_message_enter_container(msg, 'e', "sv")
enter_entry(props, st) ==
    IF ~st.in_array THEN -6
    ELSE IF st.pos > Len(props) THEN 0
    ELSE 1

\* sd_bus_message_read(msg, "s", &propname) after enter_entry returned rc
read_name(props, st, rc_enter) ==
    IF rc_enter = 0 THEN [rc |-> 0, val |-> st.propname]
    ELSE IF props[st.pos].name = BadString
         THEN [rc |-> -74, val |-> st.propname]
         ELSE [rc |-> 1, val |-> props[st.pos].name]

\* sd_bus_message_read(msg, "v", "b", &tmp); tmp keeps its prior content
\* unless a boolean was read
read_variant_bool(props, st, rc_enter, tmp) ==
    IF rc_enter = 0 THEN [rc |-> 0, val |-> tmp]
    ELSE IF props[st.pos].value.sig = "b"
         THEN [rc |-> 1, val |-> props[st.pos].value.val]
         ELSE [rc |-> -6, val |-> tmp]

\* sd_bus_message_skip(msg, "v")
skip_variant(rc_enter) == IF rc_enter = 0 THEN 0 ELSE 1

\* sd_bus_message_exit_container(msg): leaves the entry if one was entered,
\* and otherwise leaves the array, whose end has been reached
exit_container(st, rc_enter) ==
    IF rc_enter = 0 THEN [st EXCEPT !.in_array = FALSE]
    ELSE [st EXCEPT !.pos = st.pos + 1]

Op(name, idx, rc) == [op |-> name, idx |-> idx, rc |-> rc]

(***************************************************************************)
(* propchange_handler, lines 151-177: the scan of the changed properties.  *)
(* One evaluation of scan_props is one iteration of the for (;;) loop.     *)
(***************************************************************************)
RECURSIVE scan_props(_, _, _, _)
scan_props(sensor, props, u, st) ==
    LET rc1 == enter_entry(props, st)
        st1 == [st EXCEPT !.iters = st.iters + 1, !.rc = rc1,
                          !.trace = Append(st.trace,
                                           Op("enter_entry", st.pos, rc1))]
    IN
    IF rc1 < 0 THEN st1
    ELSE
    LET name == read_name(props, st1, rc1)
        st2 == [st1 EXCEPT !.rc = name.rc, !.propname = name.val,
                           !.trace = Append(st1.trace,
                                            Op("read_name", st.pos, name.rc))]
    IN
    IF name.rc < 0 THEN st2
    ELSE IF st2.propname = WildPointer
    THEN [st2 EXCEPT !.crashed = TRUE]
    ELSE IF ~threshold_prop_matches_config(sensor, st2.propname)
    THEN
        LET rc3 == skip_variant(rc1)
            st3 == [st2 EXCEPT !.trace = Append(st2.trace,
                                                Op("skip", st.pos, rc3))]
        IN scan_props(sensor, props, u, exit_container(st3, rc1))
    ELSE
        LET val == read_variant_bool(props, st2, rc1, u.tmp)
            st3 == [st2 EXCEPT !.rc = val.rc,
                               !.trace = Append(st2.trace,
                                                Op("read_bool", st.pos,
                                                   val.rc))]
        IN
        IF val.rc < 0 THEN st3
        ELSE IF val.val # 0 THEN [st3 EXCEPT !.threshold_asserted = TRUE]
        ELSE scan_props(sensor, props, u, exit_container(st3, rc1))

ScanStart(u, trace) ==
    [pos |-> 1, in_array |-> TRUE, propname |-> u.propname, rc |-> 1,
     threshold_asserted |-> FALSE, crashed |-> FALSE, iters |-> 0,
     trace |-> trace]

(***************************************************************************)
(* Handler outcome                                                         *)
(*   rc         : the handler's return value                               *)
(*   crashed    : the process died inside the handler                      *)
(*   dispatched : the (path, prop) pairs handle_critical_threshold got     *)
(*   calls      : number of sd_bus_call_method invocations                 *)
(*   call_rc    : the results of those invocations                         *)
(*   log        : lines printed                                            *)
(*   trace      : the reads performed on the message, in order             *)
(*   iters      : iterations of the scan loop                              *)
(***************************************************************************)
Outcome(rc, trace) ==
    [done |-> TRUE, rc |-> rc, crashed |-> FALSE, dispatched |-> <<>>,
     calls |-> 0, call_rc |-> <<>>, log |-> <<>>, trace |-> trace,
     iters |-> 0]

NoOutcome == [Outcome(0, <<>>) EXCEPT !.done = FALSE]

\* bug: a failed remote call is issued a second time
handle_critical_threshold_retry(o, path, prop, call_rc) ==
    [o EXCEPT
       !.dispatched = Append(o.dispatched, [path |-> path, prop |-> prop]),
       !.calls = o.calls + (IF call_rc < 0 THEN 2 ELSE 1),
       !.call_rc = o.call_rc
                   \o (IF call_rc < 0 THEN <<call_rc, call_rc>>
                       ELSE <<call_rc>>),
       !.log = o.log
               \o <<[text |-> "Sensor %s asserted %s!", path |-> path,
                     prop |-> prop]>>
               \o (IF call_rc < 0
                   THEN <<[text |-> "failed to trigger host transition",
                           path |-> <<>>, prop |-> <<>>]>>
                   ELSE <<>>)]

handle_critical_threshold(o, path, prop, call_rc) ==
    [o EXCEPT
       !.dispatched = Append(o.dispatched, [path |-> path, prop |-> prop]),
       !.calls = o.calls + 1,
       !.call_rc = Append(o.call_rc, call_rc),
       !.log = o.log
               \o <<[text |-> "Sensor %s asserted %s!", path |-> path,
                     prop |-> prop]>>
               \o (IF call_rc < 0
                   THEN <<[text |-> "failed to trigger host transition",
                           path |-> <<>>, prop |-> <<>>]>>
                   ELSE <<>>)]

\* lines 144-183
process_changed_props(m, sender, sensor, u, trace) ==
    LET rc == enter_array(m.arg1)
        trace1 == Append(trace, Op("enter_array", 0, rc))
    IN
    IF rc < 0 THEN Outcome(rc, trace1)
    ELSE
    LET st == scan_props(sensor, m.arg1.val, u, ScanStart(u, trace1))
        o == [Outcome(0, st.trace)
                EXCEPT !.iters = st.iters, !.crashed = st.crashed]
    IN
    IF st.crashed THEN o
    ELSE IF st.threshold_asserted
    THEN handle_critical_threshold(o, sender, st.propname, u.call_rc)
    ELSE o

\* lines 138-142
lookup_sensor(m, u, trace) ==
    LET sender == sd_bus_message_get_path(m)
        sensor == find_sensor_config(sender)
        trace1 == Append(trace, Op("find_sensor_config", 0, sensor))
    IN
    IF sensor = 0 THEN Outcome(0, trace1)
    ELSE process_changed_props(m, sender, sensor_configs[sensor], u, trace1)

\* bug: the test of strcmp is inverted
check_iface_inverted(m, u) ==
    LET iface == sd_bus_message_read_basic(m.arg0)
        trace == <<Op("read_arg0", 0, iface.rc)>>
    IN
    IF iface.rc < 0 THEN Outcome(iface.rc, trace)
    ELSE IF strcmp(iface.val, crit_iface) = 0 THEN Outcome(0, trace)
    ELSE lookup_sensor(m, u, trace)

\* bug: a failed read of the first argument is treated as "not our signal"
check_iface_swallow(m, u) ==
    LET iface == sd_bus_message_read_basic(m.arg0)
        trace == <<Op("read_arg0", 0, iface.rc)>>
    IN
    IF iface.rc < 0 THEN Outcome(0, trace)
    ELSE IF strcmp(iface.val, crit_iface) # 0 THEN Outcome(0, trace)
    ELSE lookup_sensor(m, u, trace)

\* lines 131-136
check_iface(m, u) ==
    LET iface == sd_bus_message_read_basic(m.arg0)
        trace == <<Op("read_arg0", 0, iface.rc)>>
    IN
    IF iface.rc < 0 THEN Outcome(iface.rc, trace)
    ELSE IF strcmp(iface.val, crit_iface) # 0 THEN Outcome(0, trace)
    ELSE lookup_sensor(m, u, trace)

\* bug: the payload is read before the message is known to be the signal
propchange_handler_unchecked(m, u) ==
    check_iface(m, u)

\* lines 113-136
propchange_handler(m, u) ==
    IF ~sd_bus_message_is_signal(m, prop_iface, propchange_member)
    THEN Outcome(0, <<>>)
    ELSE check_iface(m, u)

(***************************************************************************)
(* The classifier on its own: inputs drawn at Init, one application.       *)
(***************************************************************************)
\* largest value of the thresholds bit mask of a generated configuration
MaxMask == 7

ClassifierNames ==
    EntryNames
    \cup { <<>>, <<"CriticalAlarm">>, <<"CriticalAlarm", "High", "2">>,
           <<"criticalalarm", "high">> }

ClassifierConfigs == [path : {Temp1, Temp2}, thresholds : 0..MaxMask]

NoClassification ==
    [config |-> sensor_configs[1], propname |-> <<>>, done |-> FALSE,
     result |-> FALSE]

\* main is not running in the specifications of a single function
NoMain ==
    /\ exit_status = "running"
    /\ bus = [open |-> FALSE, match |-> FALSE]
    /\ main_rc = 0
    /\ diag = <<>>
    /\ inbox = <<>>

InitClassifier ==
    /\ pc = "classifier"
    /\ NoMain
    /\ msg = NoMessage
    /\ out = NoOutcome
    /\ cls \in [config : ClassifierConfigs, propname : ClassifierNames,
                done : {FALSE}, result : {FALSE}]

Classify ==
    /\ pc = "classifier"
    /\ ~cls.done
    /\ cls' = [cls EXCEPT
                 !.done = TRUE,
                 !.result = threshold_prop_matches_config(cls.config,
                                                          cls.propname)]
    /\ UNCHANGED <<main_vars, msg, out>>

NextClassifier == Classify

SpecClassifier == InitClassifier /\ [][NextClassifier]_vars

(***************************************************************************)
(* The handler on one message: the message is drawn at Init, the values    *)
(* the handler leaves undetermined are drawn when it runs.                 *)
(***************************************************************************)
InitHandler ==
    /\ pc = "handler"
    /\ NoMain
    /\ \E h \in Headers, p \in Paths, a0 \in Arg0s, a1 \in Arg1s :
          msg = Message(h, p, a0, a1)
    /\ out = NoOutcome
    /\ cls = NoClassification

HandleMessage ==
    /\ pc = "handler"
    /\ ~out.done
    /\ \E u \in Unknowns : out' = propchange_handler(msg, u)
    /\ UNCHANGED <<main_vars, msg, cls>>

NextHandler == HandleMessage

SpecHandler == InitHandler /\ [][NextHandler]_vars

(***************************************************************************)
(* main: set-up and the event loop.  The transport queues the signals it   *)
(* receives (Deliver); each successful sd_bus_process with a queued signal *)
(* takes the oldest one and calls propchange_handler on it.                *)
(***************************************************************************)
\* the changed-properties arrays of the signals the transport delivers
LoopProps ==
    { <<>>,
      <<[name |-> CriticalAlarmHigh, value |-> VariantTrue]>>,
      <<[name |-> CriticalAlarmHigh, value |-> VariantFalse]>>,
      <<[name |-> CriticalAlarmHigh, value |-> VariantInt]>>,
      <<[name |-> BadString, value |-> VariantFalse]>>,
      <<[name |-> CriticalAlarmLow, value |-> VariantFalse],
        [name |-> CriticalAlarmHigh, value |-> VariantTrue]>>,
      <<[name |-> OtherProp, value |-> VariantInt],
        [name |-> CriticalAlarmHigh, value |-> VariantTrue]>> }

LoopArg1s == {[sig |-> "a{sv}", val |-> q] : q \in LoopProps}

SignalHeader ==
    [type |-> "signal", interface |-> prop_iface,
     member |-> propchange_member]

CritArg == [sig |-> "s", val |-> crit_iface]

HighTrue ==
    [sig |-> "a{sv}",
     val |-> <<[name |-> CriticalAlarmHigh, value |-> VariantTrue]>>]

\* the signals the transport delivers: every LoopProps array from Temp1,
\* and one signal for each way of being rejected or failing earlier
LoopMessages ==
    {Message(SignalHeader, Temp1, CritArg, a1) : a1 \in LoopArg1s}
    \cup
    { Message(SignalHeader, Temp2, CritArg,
              [sig |-> "a{sv}",
               val |-> <<[name |-> CriticalAlarmLow,
                          value |-> VariantTrue]>>]),
      Message(SignalHeader, <<SensorDir, "Temp">>, CritArg, HighTrue),
      Message(SignalHeader, Temp1, [sig |-> "s", val |-> other_iface],
              HighTrue),
      Message(SignalHeader, Temp1, [sig |-> "i", val |-> <<>>], HighTrue),
      Message(SignalHeader, Temp1, CritArg, [sig |-> "s", val |-> <<>>]),
      Message([type |-> "method_call", interface |-> prop_iface,
               member |-> propchange_member], Temp1, CritArg, HighTrue) }

Init ==
    /\ pc = "sd_bus_default"
    /\ exit_status = "running"
    /\ bus = [open |-> FALSE, match |-> FALSE]
    /\ main_rc = 0
    /\ diag = <<>>
    /\ inbox = <<>>
    /\ msg = NoMessage
    /\ out = NoOutcome
    /\ cls = NoClassification

\* errx/err: a diagnostic, then exit(EXIT_FAILURE); and `return EXIT_FAILURE'
\* after the warnx of line 215
Exit(status, line) ==
    /\ pc' = "exit"
    /\ exit_status' = status
    /\ diag' = Append(diag, line)

\* bug: a failed sd_bus_default is not noticed
BusDefault_unchecked ==
    /\ pc = "sd_bus_default"
    /\ \E r \in {0, -1} :
          /\ pc' = "asprintf"
          /\ bus' = [bus EXCEPT !.open = (r >= 0)]
          /\ UNCHANGED <<exit_status, diag>>
    /\ UNCHANGED <<main_rc, inbox, msg, out, cls>>

\* lines 195-197
BusDefault ==
    /\ pc = "sd_bus_default"
    /\ \E r \in {0, -1} :
          IF r < 0
          THEN Exit("EXIT_FAILURE", "can't connect to dbus") /\ UNCHANGED bus
          ELSE /\ pc' = "asprintf"
               /\ bus' = [bus EXCEPT !.open = TRUE]
               /\ UNCHANGED <<exit_status, diag>>
    /\ UNCHANGED <<main_rc, inbox, msg, out, cls>>

\* lines 200-204
DefineMatch ==
    /\ pc = "asprintf"
    /\ \E r \in {1, -1} :
          IF r < 0
          THEN Exit("EXIT_FAILURE", "unable to define match")
          ELSE pc' = "sd_bus_add_match" /\ UNCHANGED <<exit_status, diag>>
    /\ UNCHANGED <<bus, main_rc, inbox, msg, out, cls>>

\* lines 206-209
AddMatch ==
    /\ pc = "sd_bus_add_match"
    /\ \E r \in {0, -1} :
          IF r < 0
          THEN Exit("EXIT_FAILURE", "can't establish properties match")
               /\ UNCHANGED bus
          ELSE /\ pc' = "sd_bus_process"
               /\ bus' = [bus EXCEPT !.match = TRUE]
               /\ UNCHANGED <<exit_status, diag>>
    /\ UNCHANGED <<main_rc, inbox, msg, out, cls>>

\* the transport receives a signal while main is in its loop
Deliver ==
    /\ pc \in {"sd_bus_process", "sd_bus_wait"}
    /\ Len(inbox) < MaxQueue
    /\ \E m \in LoopMessages : inbox' = Append(inbox, m)
    /\ UNCHANGED <<pc, exit_status, bus, main_rc, diag, msg, out, cls>>

\* lines 213-217, 224: sd_bus_process fails
ProcessError ==
    /\ pc = "sd_bus_process"
    /\ main_rc' = -1
    /\ Exit("EXIT_FAILURE", "can't process dbus events")
    /\ UNCHANGED <<bus, inbox, msg, out, cls>>

\* bug: main waits after every sd_bus_process that did not fail
ProcessIdle_always ==
    /\ pc = "sd_bus_process"
    /\ main_rc' = IF inbox = <<>> THEN 0 ELSE 1
    /\ pc' = "sd_bus_wait"
    /\ UNCHANGED <<exit_status, bus, diag, inbox, msg, out, cls>>

\* lines 213, 220: sd_bus_process has nothing to do
ProcessIdle ==
    /\ pc = "sd_bus_process"
    /\ inbox = <<>>
    /\ main_rc' = 0
    /\ pc' = "sd_bus_wait"
    /\ UNCHANGED <<exit_status, bus, diag, inbox, msg, out, cls>>

\* bug: the handler's error ends the loop
ProcessMessage_fatal ==
    /\ pc = "sd_bus_process"
    /\ inbox # <<>>
    /\ \E u \in Unknowns :
          /\ msg' = Head(inbox)
          /\ inbox' = Tail(inbox)
          /\ out' = propchange_handler(Head(inbox), u)
          /\ IF out'.crashed
             THEN /\ pc' = "crashed"
                  /\ exit_status' = "SIGSEGV"
                  /\ UNCHANGED <<main_rc, diag>>
             ELSE IF out'.rc < 0
             THEN /\ main_rc' = -1
                  /\ Exit("EXIT_FAILURE", "can't process dbus events")
             ELSE main_rc' = 1 /\ UNCHANGED <<pc, exit_status, diag>>
    /\ UNCHANGED <<bus, cls>>

\* line 213: sd_bus_process takes the oldest queued signal and runs the
\* handler on it; the handler's return value does not reach main, which
\* sees a positive rc.  A handler that dies takes the process with it.
ProcessMessage ==
    /\ pc = "sd_bus_process"
    /\ inbox # <<>>
    /\ \E u \in Unknowns :
          /\ msg' = Head(inbox)
          /\ inbox' = Tail(inbox)
          /\ out' = propchange_handler(Head(inbox), u)
          /\ IF out'.crashed
             THEN /\ pc' = "crashed"
                  /\ exit_status' = "SIGSEGV"
                  /\ UNCHANGED main_rc
             ELSE main_rc' = 1 /\ UNCHANGED <<pc, exit_status>>
    /\ UNCHANGED <<bus, diag, cls>>

\* line 221: sd_bus_wait returns (its result is not looked at)
Wait ==
    /\ pc = "sd_bus_wait"
    /\ pc' = "sd_bus_process"
    /\ UNCHANGED <<exit_status, bus, main_rc, diag, inbox, msg, out, cls>>

Next ==
    \/ BusDefault
    \/ DefineMatch
    \/ AddMatch
    \/ Deliver
    \/ ProcessError
    \/ ProcessIdle
    \/ ProcessMessage
    \/ Wait

Spec == Init /\ [][Next]_vars

(***************************************************************************)
(* Vocabulary of the properties, stated from the configuration and the     *)
(* message alone                                                           *)
(***************************************************************************)
\* the property names the registry watches for a sender path
RegistryWatched(path) ==
    IF path = Temp1 THEN {CriticalAlarmHigh, CriticalAlarmLow}
    ELSE IF path = Temp2 THEN {CriticalAlarmHigh}
    ELSE {}

\* the message passes the type/interface/member check
HeaderMatches(m) ==
    /\ m.type = "signal"
    /\ m.interface = prop_iface
    /\ m.member = propchange_member

\* the message passes the filter
Accepted(m) == HeaderMatches(m) /\ m.arg0 = [sig |-> "s", val |-> crit_iface]

\* the handler gets as far as scanning the changed properties
Scanned(m) ==
    /\ Accepted(m)
    /\ m.path \in {Temp1, Temp2}
    /\ m.arg1.sig = "a{sv}"

EntryCount(m) == IF m.arg1.sig = "a{sv}" THEN Len(m.arg1.val) ELSE 0

IsWatched(m, i) == m.arg1.val[i].name \in RegistryWatched(m.path)

IsAsserted(m, i) == IsWatched(m, i) /\ m.arg1.val[i].value = VariantTrue

\* entry i lets the scan go on to entry i + 1
Passes(m, i) ==
    /\ m.arg1.val[i].name # BadString
    /\ IsWatched(m, i) => m.arg1.val[i].value = VariantFalse

\* the scan gets to entry i
Reached(m, i) == \A j \in 1..(i - 1) : Passes(m, j)

\* i is the first asserted watched entry, and the scan gets to it
IsTrigger(m, i) == IsAsserted(m, i) /\ Reached(m, i)

TraceOps == {out.trace[t] : t \in DOMAIN out.trace}

EntryOps == {"enter_entry", "read_name", "skip", "read_bool"}

Pair(path, prop) == [path |-> path, prop |-> prop]

(***************************************************************************)
(* C1                                                                      *)
(***************************************************************************)
\* C1: per handled signal handle_critical_threshold is invoked at most once;
\* when it is invoked, the trigger is the first changed-properties entry, in
\* wire order, that is watched and boolean true, and no entry after the
\* trigger is read, classified or decoded.
C1_DispatchOnFirstAsserted ==
    out.done =>
        /\ Len(out.dispatched) <= 1
        /\ out.calls <= 1
        /\ out.dispatched # <<>> =>
              \E i \in 1..EntryCount(msg) :
                  /\ IsAsserted(msg, i)
                  /\ \A j \in 1..(i - 1) : ~IsAsserted(msg, j)
                  /\ \A t \in TraceOps : t.idx <= i

(***************************************************************************)
(* C2                                                                      *)
(***************************************************************************)
\* C2: the property named in a dispatch is always one the sender's
\* configuration watches (so a sensor watching only High never dispatches
\* for CriticalAlarmLow), and a signal whose entries all have names the
\* sender does not watch causes no dispatch, whatever their values.
C2_UnwatchedNeverDispatches ==
    out.done =>
        /\ \A d \in 1..Len(out.dispatched) :
              out.dispatched[d].prop \in RegistryWatched(msg.path)
        /\ ( /\ Scanned(msg)
             /\ EntryCount(msg) >= 1
             /\ \A i \in 1..EntryCount(msg) : ~IsWatched(msg, i) )
           => out.dispatched = <<>> /\ out.calls = 0

\* a signal from Temp2 with CriticalAlarmLow = true was handled without a
\* dispatch
C2_Witness ==
    /\ out.done
    /\ Scanned(msg)
    /\ msg.path = Temp2
    /\ msg.arg1.val
         = <<[name |-> CriticalAlarmLow, value |-> VariantTrue]>>
    /\ out.dispatched = <<>>

(***************************************************************************)
(* C3                                                                      *)
(***************************************************************************)
\* C3: when the scan of an accepted signal from a registered sensor gets
\* to a watched entry whose value is not a boolean, the handler returns an
\* error.
C3_NonBooleanIsError ==
    ( /\ out.done
      /\ Scanned(msg)
      /\ \E i \in 1..EntryCount(msg) :
            /\ Reached(msg, i)
            /\ IsWatched(msg, i)
            /\ msg.arg1.val[i].value.sig # "b" )
    => out.rc < 0

(***************************************************************************)
(* C4                                                                      *)
(***************************************************************************)
\* C4: a dispatch carries exactly the sender path of the signal and the
\* name of the first watched entry whose value is boolean true.
C4_DispatchPair ==
    (out.done /\ out.dispatched # <<>>) =>
        \E i \in 1..EntryCount(msg) :
            /\ IsTrigger(msg, i)
            /\ out.dispatched
                 = <<Pair(msg.path, msg.arg1.val[i].name)>>

(***************************************************************************)
(* C5                                                                      *)
(***************************************************************************)
\* the kinds whose bit is set in a thresholds mask
KindsOfMask(mask) == {k \in {T_HIGH, T_LOW} : (mask \div k) % 2 = 1}

TableNames == {prop_names[i].prop : i \in DOMAIN prop_names}

\* C5: threshold_prop_matches_config(config, propname) is true exactly when
\* propname is in the kind-name table and its kind is one the configuration
\* watches; it is false for every name outside the table and for every name
\* when no kind is watched.
C5_ClassifierExact ==
    cls.done =>
        /\ cls.result
             <=> \E i \in DOMAIN prop_names :
                    /\ prop_names[i].prop = cls.propname
                    /\ prop_names[i].config
                         \in KindsOfMask(cls.config.thresholds)
        /\ cls.propname \notin TableNames => ~cls.result
        /\ KindsOfMask(cls.config.thresholds) = {} => ~cls.result

\* a name outside the table was classified for a configuration that
\* watches both kinds
C5_Witness ==
    /\ cls.done
    /\ cls.propname = <<"CriticalAlarm", "High", "2">>
    /\ KindsOfMask(cls.config.thresholds) = {T_HIGH, T_LOW}
    /\ ~cls.result

(***************************************************************************)
(* C6                                                                      *)
(***************************************************************************)
\* C6: a PropertiesChanged signal whose first argument is a string other
\* than the threshold-critical interface name is rejected: the handler
\* returns 0, reads no property entry, dispatches nothing, makes no remote
\* call and logs nothing, for every sender path and property content.
C6_OtherInterfaceRejected ==
    ( /\ out.done
      /\ HeaderMatches(msg)
      /\ msg.arg0.sig = "s"
      /\ msg.arg0.val # crit_iface )
    => /\ out.rc = 0
       /\ ~out.crashed
       /\ out.dispatched = <<>>
       /\ out.calls = 0
       /\ out.log = <<>>
       /\ out.iters = 0
       /\ \A t \in TraceOps : t.op = "read_arg0"

\* such a signal, from Temp1 and carrying CriticalAlarmHigh = true, was
\* handled
C6_Witness ==
    /\ out.done
    /\ HeaderMatches(msg)
    /\ msg.arg0 = [sig |-> "s", val |-> other_iface]
    /\ msg.path = Temp1
    /\ msg.arg1.sig = "a{sv}"
    /\ msg.arg1.val
         = <<[name |-> CriticalAlarmHigh, value |-> VariantTrue]>>
    /\ out.rc = 0

(***************************************************************************)
(* C7                                                                      *)
(***************************************************************************)
\* C7: a watched entry with value false causes no dispatch and the scan
\* goes on: in a signal where the scan gets to such an entry, a dispatch
\* happens exactly when a watched entry with value true is reached, and it
\* is for that entry.
C7_FalseEntryContinues ==
    ( /\ out.done
      /\ Scanned(msg)
      /\ \E i \in 1..EntryCount(msg) :
            /\ Reached(msg, i)
            /\ IsWatched(msg, i)
            /\ msg.arg1.val[i].value = VariantFalse )
    => IF \E k \in 1..EntryCount(msg) : IsTrigger(msg, k)
       THEN \E k \in 1..EntryCount(msg) :
               /\ IsTrigger(msg, k)
               /\ out.dispatched = <<Pair(msg.path, msg.arg1.val[k].name)>>
       ELSE out.dispatched = <<>>

(***************************************************************************)
(* C8                                                                      *)
(***************************************************************************)
\* C8: an entry the sender's configuration does not watch is skipped and
\* never decoded as a boolean; whatever the type of its value it causes no
\* error and does not stop the scan, so the next entry is entered and a
\* later asserted watched entry is dispatched.
C8_IrrelevantSkipped ==
    (out.done /\ Scanned(msg)) =>
        /\ \A t \in TraceOps :
              (t.op = "read_bool" /\ t.idx <= EntryCount(msg))
              => IsWatched(msg, t.idx)
        /\ \A i \in 1..EntryCount(msg) :
              ( /\ Reached(msg, i)
                /\ ~IsWatched(msg, i)
                /\ msg.arg1.val[i].name # BadString )
              => /\ Op("skip", i, 1) \in TraceOps
                 /\ \E t \in TraceOps : t.op = "enter_entry" /\ t.idx = i + 1
                 /\ out.rc = 0
        /\ \A k \in 1..EntryCount(msg) :
              IsTrigger(msg, k)
              => out.dispatched = <<Pair(msg.path, msg.arg1.val[k].name)>>

\* an unwatched entry with a non-boolean value came before an asserted
\* watched entry, which was dispatched
C8_Witness ==
    /\ out.done
    /\ Scanned(msg)
    /\ msg.path = Temp1
    /\ msg.arg1.val
         = <<[name |-> OtherProp, value |-> VariantInt],
             [name |-> CriticalAlarmHigh, value |-> VariantTrue]>>
    /\ out.dispatched = <<Pair(Temp1, CriticalAlarmHigh)>>
    /\ Op("skip", 1, 1) \in TraceOps

(***************************************************************************)
(* C9                                                                      *)
(***************************************************************************)
\* C9: in a signal that passes the type/interface/member check, a first
\* argument that cannot be read as a string makes the handler return a
\* negative result, while a readable first argument naming another
\* interface makes it return 0.
C9_UnreadableArgIsError ==
    (out.done /\ HeaderMatches(msg)) =>
        /\ msg.arg0.sig # "s"
             => out.rc < 0 /\ out.dispatched = <<>> /\ out.iters = 0
        /\ (msg.arg0.sig = "s" /\ msg.arg0.val # crit_iface) => out.rc = 0

\* a signal with an unreadable first argument was handled
C9_Witness ==
    /\ out.done
    /\ HeaderMatches(msg)
    /\ msg.arg0.sig = "i"
    /\ msg.path = Temp1
    /\ out.rc < 0

(***************************************************************************)
(* C10                                                                     *)
(***************************************************************************)
ConfiguredPaths == {sensor_configs[i].path : i \in DOMAIN sensor_configs}

\* C10: a signal whose sender path is absent or differs from every
\* configured path (a proper prefix or an extension included) causes no
\* dispatch and no read of its changed properties.
C10_ExactPathMatch ==
    (out.done /\ msg.path \notin ConfiguredPaths) =>
        /\ out.dispatched = <<>>
        /\ out.calls = 0
        /\ out.rc = 0 \/ ~Accepted(msg)
        /\ \A t \in TraceOps : t.op \notin EntryOps \cup {"enter_array"}

\* an accepted signal from an extension of Temp1's path, carrying
\* CriticalAlarmHigh = true, was handled without a dispatch
C10_Witness ==
    /\ out.done
    /\ Accepted(msg)
    /\ msg.path = <<SensorDir, "Temp", "1", "0">>
    /\ msg.arg1.sig = "a{sv}"
    /\ msg.arg1.val
         = <<[name |-> CriticalAlarmHigh, value |-> VariantTrue]>>
    /\ out.dispatched = <<>>

(***************************************************************************)
(* Vocabulary of the event-loop properties                                 *)
(***************************************************************************)
OpsOf(o) == {o.trace[t] : t \in DOMAIN o.trace}

\* a read of message m failed while the handler produced outcome o; the
\* failed enter that ends the scan after the array has been left is the
\* loop's ordinary way out and is not counted
ReadFailed(m, o) ==
    \E t \in OpsOf(o) :
        /\ t.rc < 0
        /\ \/ t.op \in {"read_arg0", "enter_array"}
           \/ /\ t.op \in {"enter_entry", "read_name", "read_bool"}
              /\ t.idx <= EntryCount(m)

\* m passes the filter, comes from a registered sensor, and its scan gets
\* to a watched entry with value true
Eligible(m) ==
    /\ Scanned(m)
    /\ \E k \in 1..EntryCount(m) : IsTrigger(m, k)

TriggerPair(m) ==
    Pair(m.path,
         m.arg1.val[CHOOSE k \in 1..EntryCount(m) : IsTrigger(m, k)].name)

\* this step is an sd_bus_process that took a signal from the queue
TakesSignal == Len(inbox') < Len(inbox)

InLoop == pc \in {"sd_bus_process", "sd_bus_wait"}

AssertionNotice(m) ==
    [text |-> "Sensor %s asserted %s!", path |-> m.path,
     prop |-> TriggerPair(m).prop]

FailureNotice ==
    [text |-> "failed to trigger host transition", path |-> <<>>,
     prop |-> <<>>]

(***************************************************************************)
(* C11                                                                     *)
(***************************************************************************)
\* C11: every error is followed by a log line of the program: when a read
\* of the handled message failed (first argument, property array, entry,
\* name, boolean value of a watched entry) or the remote call failed, the
\* handler has logged something.
C11_ErrorsAreLogged ==
    out.done =>
        /\ ReadFailed(msg, out) => out.log # <<>>
        /\ (\E c \in DOMAIN out.call_rc : out.call_rc[c] < 0)
             => \E l \in DOMAIN out.log : out.log[l] = FailureNotice

(***************************************************************************)
(* C12                                                                     *)
(***************************************************************************)
\* C12: a failed read aborts the handling of that one signal only: the
\* step that handles it takes it out of the queue and leaves main in its
\* loop with the process running, and when the handling before failed the
\* next signal is handled as usual, a signal with a reached asserted
\* watched entry being dispatched.
C12_FailureIsLocal ==
    [][ TakesSignal =>
          /\ msg' = Head(inbox)
          /\ inbox' = Tail(inbox)
          /\ ReadFailed(msg', out') =>
                /\ pc' = "sd_bus_process"
                /\ exit_status' = "running"
                /\ out'.dispatched = <<>>
          /\ (out.done /\ ReadFailed(msg, out) /\ Eligible(Head(inbox)))
                => out'.dispatched = <<TriggerPair(Head(inbox))>>
      ]_vars

\* after a handling that failed main is in its loop, and the signal next
\* in the queue carries an asserted watched property
C12_Witness ==
    /\ out.done
    /\ ReadFailed(msg, out)
    /\ out.rc < 0
    /\ pc = "sd_bus_process"
    /\ exit_status = "running"
    /\ inbox # <<>>
    /\ Eligible(Head(inbox))

(***************************************************************************)
(* C13                                                                     *)
(***************************************************************************)
\* C13: a trigger issues exactly one remote call, whether it succeeds or
\* fails; a failure adds one log line after the assertion notice and
\* nothing else: the handler returns 0, and main stays in its loop with
\* the process running.
C13_TriggerIsBestEffort ==
    [][ (TakesSignal /\ out'.dispatched # <<>>) =>
          /\ out'.calls = 1
          /\ Len(out'.call_rc) = 1
          /\ Len(out'.dispatched) = 1
          /\ out'.rc = 0
          /\ out'.log = IF out'.call_rc[1] < 0
                        THEN <<out'.log[1], FailureNotice>>
                        ELSE <<out'.log[1]>>
          /\ out'.log[1].text = "Sensor %s asserted %s!"
          /\ pc' = "sd_bus_process"
          /\ exit_status' = "running"
          /\ main_rc' > 0
      ]_vars

\* a trigger whose remote call failed has been handled and main is back in
\* its loop
C13_Witness ==
    /\ out.done
    /\ out.call_rc = <<-1>>
    /\ Eligible(msg)
    /\ out.log = <<AssertionNotice(msg), FailureNotice>>
    /\ pc = "sd_bus_process"
    /\ exit_status = "running"

(***************************************************************************)
(* C14                                                                     *)
(***************************************************************************)
\* C14: main leaves its loop if and only if sd_bus_process reported an
\* error, and a process that has ended has the exit status EXIT_FAILURE:
\* once the match is registered, main is outside the loop exactly when the
\* last sd_bus_process result is negative, and handling a signal (rejected,
\* failed, or dispatched with a failed call) never takes main out of the
\* loop.
C14_LoopEndsOnlyOnTransportError ==
    /\ bus.match => (~InLoop <=> main_rc < 0)
    /\ pc \in {"exit", "crashed"} => exit_status = "EXIT_FAILURE"
    /\ InLoop => exit_status = "running"

(***************************************************************************)
(* C15                                                                     *)
(***************************************************************************)
SetupDiagnostics ==
    {"can't connect to dbus", "unable to define match",
     "can't establish properties match"}

\* C15: a failure of the setup ends the process with EXIT_FAILURE and one
\* diagnostic before the loop is entered: the match is registered only on
\* an open bus, main is in its loop (or died in it) only with the bus open
\* and the match registered, and without a registered match no signal was
\* queued or handled and no remote call was made.
C15_SetupFailureIsFatal ==
    /\ bus.match => bus.open
    /\ pc \in {"sd_bus_process", "sd_bus_wait", "crashed"}
          => bus.open /\ bus.match
    /\ pc = "sd_bus_add_match" => bus.open
    /\ ~bus.match =>
          /\ msg = NoMessage
          /\ out = NoOutcome
          /\ inbox = <<>>
          /\ main_rc = 0
    /\ (pc = "exit" /\ ~bus.match) =>
          /\ exit_status = "EXIT_FAILURE"
          /\ Len(diag) = 1
          /\ diag[1] \in SetupDiagnostics
          /\ ~bus.open <=> diag[1] = "can't connect to dbus"

\* sd_bus_add_match failed on an open bus and the process has ended
C15_Witness ==
    /\ pc = "exit"
    /\ bus.open
    /\ ~bus.match
    /\ exit_status = "EXIT_FAILURE"
    /\ diag = <<"can't establish properties match">>
    /\ out = NoOutcome

(***************************************************************************)
(* C16                                                                     *)
(***************************************************************************)
\* C16: main waits only right after an sd_bus_process that returned 0, and
\* that step handled nothing; an sd_bus_process that handled a signal and
\* returned is followed by sd_bus_process, not by a wait; and the step out
\* of sd_bus_wait goes to sd_bus_process, with no signal handled, nothing
\* taken from the queue and the process still running.
C16_DrainingWaiting ==
    [][ /\ (pc # "sd_bus_wait" /\ pc' = "sd_bus_wait") =>
              /\ pc = "sd_bus_process"
              /\ main_rc' = 0
              /\ inbox = <<>>
              /\ UNCHANGED <<msg, out, inbox>>
        /\ (TakesSignal /\ ~out'.crashed) =>
              /\ pc = "sd_bus_process"
              /\ main_rc' > 0
              /\ pc' = "sd_bus_process"
        /\ pc = "sd_bus_wait" =>
              /\ pc' \in {"sd_bus_wait", "sd_bus_process"}
              /\ ~TakesSignal
              /\ UNCHANGED <<msg, out, exit_status, main_rc>>
      ]_vars

\* main waits after signals have been handled
C16_Witness ==
    /\ pc = "sd_bus_wait"
    /\ main_rc = 0
    /\ out.done
    /\ inbox = <<>>

(***************************************************************************)
(* C17                                                                     *)
(***************************************************************************)
\* C17: the checks of the handler are made in order and the first that
\* rejects ends the handling: a message that is not a PropertiesChanged
\* signal of org.freedesktop.DBus.Properties has none of its arguments
\* read and gives 0, whatever its payload; the sender is looked up only
\* after the first argument was read and equals crit_iface; the array is
\* entered only after the sender was found among sensor_configs; and
\* entries are read only inside an array that was entered.
C17_RejectionShortCircuits ==
    out.done =>
        /\ ~HeaderMatches(msg) => out = Outcome(0, <<>>)
        /\ \A t \in DOMAIN out.trace :
              LET o == out.trace[t] IN
              /\ o.op = "read_arg0" => t = 1 /\ HeaderMatches(msg)
              /\ o.op = "find_sensor_config" =>
                    /\ t = 2
                    /\ out.trace[1] = Op("read_arg0", 0, 1)
                    /\ msg.arg0 = [sig |-> "s", val |-> crit_iface]
              /\ o.op = "enter_array" =>
                    /\ t = 3
                    /\ out.trace[2].op = "find_sensor_config"
                    /\ out.trace[2].rc # 0
                    /\ msg.path \in ConfiguredPaths
              /\ o.op \in EntryOps =>
                    /\ t > 3
                    /\ out.trace[3].op = "enter_array"
                    /\ out.trace[3].rc >= 0
        /\ (HeaderMatches(msg) /\ ~Accepted(msg)) => Len(out.trace) = 1
        /\ (Accepted(msg) /\ msg.path \notin ConfiguredPaths)
              => Len(out.trace) = 2

\* a method call from a registered sensor whose first argument is not a
\* string and whose second is not an array has been handled: nothing was
\* read and the result is 0
C17_Witness ==
    /\ out.done
    /\ msg.type = "method_call"
    /\ msg.path = Temp1
    /\ msg.arg0.sig = "i"
    /\ msg.arg1.sig = "s"
    /\ out.rc = 0
    /\ out.trace = <<>>

(***************************************************************************)
(* C18                                                                     *)
(***************************************************************************)
\* C18: what the handler does with a signal depends on the signal and the
\* configuration only: when the signal taken from the queue is identical
\* to the one handled just before, the result is the same (same return
\* value, same dispatched pair or none, no death where there was none), so
\* that a repeated asserting signal is dispatched again.
C18_HandlingIsStateless ==
    [][ (TakesSignal /\ out.done /\ Head(inbox) = msg) =>
          /\ out'.rc = out.rc
          /\ out'.dispatched = out.dispatched
          /\ out'.crashed = out.crashed
      ]_vars

(***************************************************************************)
(* C19                                                                     *)
(***************************************************************************)
\* C19: the scan of a changed-properties array of n entries takes at most
\* n + 1 iterations of the for (;;) loop of lines 151-177.
C19_ScanIterations ==
    (out.done /\ Scanned(msg)) => out.iters <= EntryCount(msg) + 1

(***************************************************************************)
(* C20                                                                     *)
(***************************************************************************)
\* the loop of main keeps taking steps: sd_bus_process and sd_bus_wait
\* return
SpecFair ==
    /\ Spec
    /\ WF_vars(ProcessMessage)
    /\ WF_vars(ProcessIdle)
    /\ WF_vars(Wait)

\* C20: as long as sd_bus_process has reported no error, a queued signal
\* that passes the filter, comes from a registered sensor and has a reached
\* watched entry with value true is not left behind (main is still in its
\* loop to take it), signals are taken one per sd_bus_process from the
\* head of the queue, and such a signal, once handled, has been dispatched
\* exactly once with its pair, the remote call made before sd_bus_process
\* returns.
C20_EligibleSignalsDispatched ==
    /\ (bus.match /\ main_rc >= 0 /\ ~InLoop)
          => \A i \in DOMAIN inbox : ~Eligible(inbox[i])
    /\ (out.done /\ Eligible(msg)) =>
          /\ out.dispatched = <<TriggerPair(msg)>>
          /\ out.calls = 1
          /\ Len(out.call_rc) = 1

====
